---- MODULE Spec2Model ----
(***************************************************************************)
(* Model of the PRADA row allocator / compiler                             *)
(* (src/rs/src/prada/compilation.rs), of the address arithmetic it relies  *)
(* on (src/rs/src/prada/architecture.rs) and of the extraction cost        *)
(* (src/rs/src/prada/extraction.rs).                                       *)
(*                                                                         *)
(* Spec is the compiler.  SpecArch and SpecCost apply the pure functions   *)
(* of architecture.rs and extraction.rs: the arguments of one call are     *)
(* drawn in the initial state (call) and one action stores the value the   *)
(* function returns (ret).                                                 *)
(*                                                                         *)
(* One behaviour is one call of compile(): the network is drawn in Init,   *)
(* New is CompilationState::new, Iterate is one iteration of the main      *)
(* loop and Return is the code after the loop.  A Rust panic (expect,      *)
(* unwrap_or_else(panic!), panic!) ends the call in pc = "panicked" with   *)
(* the message in panic; the fields keep what had been written before the  *)
(* panic.                                                                  *)
(*                                                                         *)
(* The free-row pool of the code is 0..ROWS_PER_SUBARRAY-1.  The model     *)
(* draws the pool size from 1..PoolRows so that both the exhausted and the *)
(* sufficient pool are reached; every such address is below                *)
(* ROWS_PER_SUBARRAY, as in the code.                                      *)
(*                                                                         *)
(* The networks are the cones of one or two output signals in a universe   *)
(* of the constant False (id 0), three inputs (ids 1..3) and three MAJ     *)
(* nodes (ids 4..6) whose input triples range over Triples4..Triples6:     *)
(* leaves and MAJ results with several consumers, repeated and inverted    *)
(* inputs, inverted MAJ edges, outputs that are leaves, inverted outputs   *)
(* and a node named by two output positions all occur.                     *)
(*                                                                         *)
(* eggmock is not part of the sources.  The model reads its interface as:  *)
(* leafs() yields the leaves in the cone of the outputs in ascending id;   *)
(* node_outputs(id) yields each consumer of id once; the iteration order   *)
(* of the FxHashSet candidates is not known, so min_by_key picks any       *)
(* candidate of minimal key.                                               *)
(***************************************************************************)
EXTENDS Integers, Sequences, FiniteSets, TLC

\* ------------------------------------------------------------------------
\* Bounds of the model
\* ------------------------------------------------------------------------

\* largest free-row pool handed to get_init_states (rows 0..n-1, n <= PoolRows)
PoolRows == 12

\* ------------------------------------------------------------------------
\* architecture.rs
\* ------------------------------------------------------------------------

NR_SUBARRAYS == 128
ROWS_PER_SUBARRAY == 512
SUBARRAY_ID_BITMASK == 65024
ROW_ID_BITMASK == 511

RECURSIVE BitAnd(_, _)
\* u64 bitwise AND
BitAnd(x, y) ==
    IF x = 0 \/ y = 0 THEN 0
    ELSE (x % 2) * (y % 2) + 2 * BitAnd(x \div 2, y \div 2)

RECURSIVE ilog2(_)
\* u64::ilog2
ilog2(n) == IF n <= 1 THEN 0 ELSE 1 + ilog2(n \div 2)

RECURSIVE Pow2(_)
Pow2(n) == IF n = 0 THEN 1 ELSE 2 * Pow2(n - 1)

\* x >> n on u64
ShiftRight(x, n) == x \div Pow2(n)

get_subarray_id(addr) ==
    ShiftRight(BitAnd(addr, SUBARRAY_ID_BITMASK), ilog2(ROWS_PER_SUBARRAY))

\* mutant of get_partner_subarray: the partner is always the next subarray
get_partner_subarray_Next(id) == id + 1

get_partner_subarray(id) ==
    IF id % 2 = 0 THEN id + 1 ELSE id - 1

RECURSIVE BitOr(_, _)
\* u64 bitwise OR
BitOr(x, y) ==
    IF x = 0 THEN y
    ELSE IF y = 0 THEN x
    ELSE (IF x % 2 = 1 \/ y % 2 = 1 THEN 1 ELSE 0) + 2 * BitOr(x \div 2, y \div 2)

\* x << n on u64; no bit leaves the word for the operands of this module
\* (x < NR_SUBARRAYS, n = 9)
ShiftLeft(x, n) == x * Pow2(n)

subarrayid_to_subarray_address(subarray_id) ==
    ShiftLeft(subarray_id, ilog2(ROWS_PER_SUBARRAY))

\* mutant of local_rowaddress_to_subarray_id: the subarray bits of the
\* address are not masked away
local_rowaddress_to_subarray_id_Unmasked(addr, subarray_id) ==
    BitOr(addr, subarrayid_to_subarray_address(subarray_id))

local_rowaddress_to_subarray_id(addr, subarray_id) ==
    LET local_row_address == BitAnd(addr, ROW_ID_BITMASK)
    IN  BitOr(local_row_address, subarrayid_to_subarray_address(subarray_id))

\* ------------------------------------------------------------------------
\* extraction.rs: CompilingCost
\* ------------------------------------------------------------------------

CompilingCost(r, e) == [runtime |-> r, energy_consumption |-> e]

\* impl ops::Add for CompilingCost
CostAdd(lhs, rhs) ==
    CompilingCost(lhs.runtime + rhs.runtime,
                  lhs.energy_consumption + rhs.energy_consumption)

RECURSIVE CostFold(_, _)
\* Iterator::fold over a sequence of costs with the accumulator acc
CostFold(acc, costs) ==
    IF costs = <<>> THEN acc
    ELSE CostFold(CompilingCost(acc.runtime + Head(costs).runtime,
                                acc.energy_consumption + Head(costs).energy_consumption),
                  Tail(costs))

\* impl Sum for CompilingCost
CostSum(costs) == CostFold(CompilingCost(0, 0), costs)

\* impl PartialEq for CompilingCost
CostEq(self, other) ==
    self.runtime = other.runtime /\ self.energy_consumption = other.energy_consumption

\* u64::partial_cmp, always Some(ordering)
U64PartialCmp(x, y) ==
    IF x < y THEN "Less" ELSE IF x = y THEN "Equal" ELSE "Greater"

\* mutant of partial_cmp: the fields are compared in the other order
partial_cmp_EnergyFirst(self, other) ==
    IF self.energy_consumption = other.energy_consumption
    THEN U64PartialCmp(self.runtime, other.runtime)
    ELSE U64PartialCmp(self.energy_consumption, other.energy_consumption)

\* impl PartialOrd for CompilingCost
partial_cmp(self, other) ==
    IF self.runtime = other.runtime
    THEN U64PartialCmp(self.energy_consumption, other.energy_consumption)
    ELSE U64PartialCmp(self.runtime, other.runtime)

\* e-nodes of MigLanguage: the operator and the e-class ids of its children
ENode(op, children) == [op |-> op, children |-> children]

\* mutant of op_cost: Not is charged like Maj
op_cost_NotAsMaj(enode) ==
    IF enode.op \in {"False", "Input"} THEN CompilingCost(0, 0)
    ELSE CompilingCost(49, 150)

\* the match of CompilingCostFunction::cost on the e-node
op_cost(enode) ==
    IF enode.op \in {"False", "Input"} THEN CompilingCost(0, 0)
    ELSE IF enode.op = "Not" THEN CompilingCost(35, 100)
    ELSE CompilingCost(49, 150)

RECURSIVE ENodeFold(_, _, _)
\* enode.fold(op_cost, |sum, id| sum + *(costs(id)))
ENodeFold(sum, children, costs) ==
    IF children = <<>> THEN sum
    ELSE ENodeFold(CostAdd(sum, costs[Head(children)]), Tail(children), costs)

\* mutant of cost: no test for a self-cycle
cost_NoSelfCheck(eclass_id, enode, costs) ==
    [ cost |-> <<ENodeFold(op_cost(enode), enode.children, costs)>>,
      calls |-> enode.children ]

\* CompilingCostFunction::cost: the Option it returns (<<>> is None) and the
\* e-class ids it has asked the callback costs for
cost(eclass_id, enode, costs) ==
    IF \E i \in DOMAIN enode.children : enode.children[i] = eclass_id
    THEN [ cost |-> <<>>, calls |-> <<>> ]
    ELSE [ cost |-> <<ENodeFold(op_cost(enode), enode.children, costs)>>,
           calls |-> enode.children ]

\* ------------------------------------------------------------------------
\* Networks (eggmock::Mig, eggmock::Signal, NetworkWithBackwardEdges)
\* ------------------------------------------------------------------------

Signal(id, inverted) == [node |-> id, inv |-> inverted]
invert(s) == Signal(s.node, ~s.inv)

FalseNode == [kind |-> "False", ins |-> <<>>]
InputNode == [kind |-> "Input", ins |-> <<>>]
MajNode(t) == [kind |-> "Maj", ins |-> t]

is_leaf(node) == node.kind # "Maj"

\* ids of the node universe: 0 is the constant False, 1..3 are primary
\* inputs, 4..6 are MAJ nodes
S0 == Signal(0, FALSE)
N0 == Signal(0, TRUE)
S1 == Signal(1, FALSE)
N1 == Signal(1, TRUE)
S2 == Signal(2, FALSE)
S3 == Signal(3, FALSE)
N3 == Signal(3, TRUE)
S4 == Signal(4, FALSE)
N4 == Signal(4, TRUE)
S5 == Signal(5, FALSE)
N5 == Signal(5, TRUE)
S6 == Signal(6, FALSE)

\* the input triples tried for MAJ node 4, 5 and 6
Triples4 ==
    { <<S1, S2, S3>>, <<S1, S2, N3>>, <<S0, S1, S2>>, <<N0, S1, S2>>,
      <<S1, S1, S2>>, <<S1, N1, S2>> }
Triples5 ==
    { <<S4, S1, S2>>, <<S4, N1, S2>>, <<N4, S1, S2>>, <<S1, S2, S4>>,
      <<S3, S2, S1>>, <<S4, S4, S3>>, <<S0, S4, S3>>, <<S1, S2, N3>> }
Triples6 ==
    { <<S4, S5, S1>>, <<S5, S4, N3>>, <<N5, S4, S1>> }
OutSignals == { S1, N1, S4, N4, S5, N5, S6 }
OutLists ==
    { <<s>> : s \in OutSignals } \cup { <<s, t>> : s, t \in OutSignals }

Universe(t4, t5, t6) ==
    [ id \in 0..6 |->
        IF id = 0 THEN FalseNode
        ELSE IF id <= 3 THEN InputNode
        ELSE IF id = 4 THEN MajNode(t4)
        ELSE IF id = 5 THEN MajNode(t5)
        ELSE MajNode(t6) ]

RECURSIVE ConeOf(_, _, _)
\* the node ids reachable from the ids in todo
ConeOf(nodes, todo, seen) ==
    IF todo = {} THEN seen
    ELSE LET id == CHOOSE x \in todo : TRUE
             kids == { nodes[id].ins[i].node : i \in DOMAIN nodes[id].ins }
         IN  ConeOf(nodes, (todo \cup kids) \ (seen \cup {id}), seen \cup {id})

\* the network an extraction with the given outputs yields: the cone of the
\* outputs
MakeNetwork(t4, t5, t6, outs) ==
    LET all == Universe(t4, t5, t6)
        ids == ConeOf(all, { outs[k].node : k \in DOMAIN outs }, {})
    IN  [ nodes |-> [ id \in ids |-> all[id] ], outs |-> outs ]

Networks ==
    { MakeNetwork(t4, t5, t6, outs) :
        t4 \in Triples4, t5 \in Triples5, t6 \in Triples6, outs \in OutLists }

NodeIds(ntk) == DOMAIN ntk.nodes
MajIds(ntk) == { id \in NodeIds(ntk) : ntk.nodes[id].kind = "Maj" }

RECURSIVE SortedSeq(_)
SortedSeq(ids) ==
    IF ids = {} THEN <<>>
    ELSE LET m == CHOOSE x \in ids : \A y \in ids : x <= y
         IN  <<m>> \o SortedSeq(ids \ {m})

\* NetworkWithBackwardEdges::leafs
leafs(ntk) == SortedSeq({ id \in NodeIds(ntk) : is_leaf(ntk.nodes[id]) })

\* NetworkWithBackwardEdges::node_outputs
node_outputs(ntk, id) ==
    { p \in NodeIds(ntk) :
        \E i \in DOMAIN ntk.nodes[p].ins : ntk.nodes[p].ins[i].node = id }

\* Network::outputs().map(|sig| sig.node_id()).collect()
OutputIds(ntk) == { ntk.outs[k].node : k \in DOMAIN ntk.outs }

\* ------------------------------------------------------------------------
\* compilation.rs: state
\* ------------------------------------------------------------------------

NoSignal == [node |-> -1, inv |-> FALSE]
NoRow == -1
NoPanic == ""
\* Option<usize> of RowState::constant: None, Some(0), Some(usize::MAX)
NoConstant == "None"
ConstZero == "Some(0)"
ConstOnes == "Some(usize::MAX)"

RowState(live, const) == [is_compute_row |-> FALSE, live_value |-> live, constant |-> const]

AAPRowCopy(src, dst) == [op |-> "AAPRowCopy", a |-> src, b |-> dst, c |-> NoRow]
AAPTRA(r0, r1, r2) == [op |-> "AAPTRA", a |-> r0, b |-> r1, c |-> r2]
N(row) == [op |-> "N", a |-> row, b |-> NoRow, c |-> NoRow]

EmptyMap == [x \in {} |-> 0]

\* HashMap::insert and HashMap::remove
Insert(m, k, v) == [x \in DOMAIN m \cup {k} |-> IF x = k THEN v ELSE m[x]]
Remove(m, k) == [x \in DOMAIN m \ {k} |-> m[x]]

VARIABLES
    network,                 \* the MIG handed to compile()
    rows_per_subarray,       \* size of the pool 0..n-1 handed to get_init_states
    pc,                      \* "start", "loop", "returned", "panicked"
    panic,                   \* message of the panic that ended the call
    dram_state,
    value_states,
    free_rows_per_subarray,
    program,
    candidates,
    outputs,
    leftover_use_count,
    runtime_estimate,        \* Program::runtime_estimate of the returned program
    energy_consumption_estimate,
    call,                    \* the function a behaviour calls, with its arguments
    ret                      \* <<>> until the called pure function has returned

vars == <<network, rows_per_subarray, pc, panic, dram_state, value_states,
          free_rows_per_subarray, program, candidates, outputs,
          leftover_use_count, runtime_estimate, energy_consumption_estimate,
          call, ret>>

\* the CompilationState as a value, threaded through the steps of a handler
EmptyState(ntk) ==
    [ network |-> ntk,
      dram_state |-> EmptyMap,
      value_states |-> EmptyMap,
      free_rows_per_subarray |-> <<>>,
      program |-> <<>>,
      candidates |-> {},
      outputs |-> {},
      leftover_use_count |-> EmptyMap,
      panic |-> NoPanic ]

Panicked(st) == st.panic # NoPanic
Fail(st, msg) == [st EXCEPT !.panic = msg]

\* Vec::pop on the free rows: the popped row and the state without it
Top(st) == st.free_rows_per_subarray[Len(st.free_rows_per_subarray)]
Popped(st) ==
    [st EXCEPT !.free_rows_per_subarray =
        SubSeq(st.free_rows_per_subarray, 1, Len(st.free_rows_per_subarray) - 1)]
PoolEmpty(st) == st.free_rows_per_subarray = <<>>

\* ------------------------------------------------------------------------
\* CompilationState::get_init_states
\* ------------------------------------------------------------------------

\* body of `for id in leafs` for one leaf
InitLeaf(st, id, row_for_false, row_for_true) ==
    IF Panicked(st) THEN st
    ELSE IF PoolEmpty(st) THEN Fail(st, "No more free rows")
    ELSE
        LET next_row == Top(st)
            st1 == Popped(st)
        IN  IF st.network.nodes[id].kind = "Input" THEN
                LET st2 == [st1 EXCEPT
                        !.value_states = Insert(@, Signal(id, FALSE), next_row),
                        !.dram_state = Insert(@, next_row, RowState(Signal(id, FALSE), NoConstant))]
                IN  IF PoolEmpty(st2) THEN Fail(st2, "No more free rows")
                    ELSE LET next_row2 == Top(st2)
                         IN  [Popped(st2) EXCEPT
                                !.value_states = Insert(@, Signal(id, TRUE), next_row2),
                                !.dram_state = Insert(@, next_row2, RowState(Signal(id, TRUE), NoConstant))]
            ELSE IF st.network.nodes[id].kind = "False" THEN
                [st1 EXCEPT
                    !.value_states =
                        Insert(Insert(@, Signal(id, FALSE), row_for_false),
                               Signal(id, TRUE), row_for_true),
                    !.dram_state =
                        Insert(Insert(@, row_for_false, RowState(Signal(id, FALSE), ConstZero)),
                               row_for_true, RowState(Signal(id, TRUE), ConstOnes))]
            ELSE Fail(st1, "leaf node should be either an input or a constant")

RECURSIVE InitLeafs(_, _, _, _)
\* `for id in leafs`
InitLeafs(st, ids, row_for_false, row_for_true) ==
    IF ids = <<>> THEN st
    ELSE InitLeafs(InitLeaf(st, Head(ids), row_for_false, row_for_true),
                   Tail(ids), row_for_false, row_for_true)

get_init_states(st0, free_rows) ==
    LET st == [st0 EXCEPT !.free_rows_per_subarray = free_rows]
    IN  IF PoolEmpty(st) THEN Fail(st, "No more free rows")
        ELSE
            LET row_for_false == Top(st)
                st1 == [Popped(st) EXCEPT
                          !.dram_state = Insert(@, row_for_false, RowState(NoSignal, ConstZero))]
            IN  IF PoolEmpty(st1) THEN Fail(st1, "No more free rows")
                ELSE
                    LET row_for_true == Top(st1)
                        st2 == [Popped(st1) EXCEPT
                                  !.dram_state =
                                      Insert(@, row_for_true, RowState(NoSignal, ConstOnes))]
                    IN  InitLeafs(st2, leafs(st.network), row_for_false, row_for_true)

\* mutant of FreeRowsInit: the index is taken for a subarray id, so that each
\* row of the pool lies in a subarray of its own
FreeRowsInit_PerSubarray(n) == [i \in 1..n |-> (i - 1) * ROWS_PER_SUBARRAY]

\* (0..ROWS_PER_SUBARRAY).map(RowAddress::from).collect(), for a pool of n rows
FreeRowsInit(n) == [i \in 1..n |-> i - 1]

\* the candidates CompilationState::new starts with
InitialCandidates(ntk) ==
    { c \in NodeIds(ntk) :
        /\ \E leaf \in NodeIds(ntk) :
              is_leaf(ntk.nodes[leaf]) /\ c \in node_outputs(ntk, leaf)
        /\ \A i \in DOMAIN ntk.nodes[c].ins :
              is_leaf(ntk.nodes[ntk.nodes[c].ins[i].node]) }

\* CompilationState::new
new(ntk, n) ==
    LET st == [EmptyState(ntk) EXCEPT
                  !.candidates = InitialCandidates(ntk),
                  !.outputs = OutputIds(ntk)]
    IN  get_init_states(st, FreeRowsInit(n))

\* ------------------------------------------------------------------------
\* CompilationState::leftover_use_count
\* ------------------------------------------------------------------------

\* the state after leftover_use_count(id): the entry exists
leftover_use_count_entry(st, id) ==
    IF id \in DOMAIN st.leftover_use_count THEN st
    ELSE [st EXCEPT !.leftover_use_count =
            Insert(@, id, Cardinality(node_outputs(st.network, id))
                          + (IF id \in st.outputs THEN 1 ELSE 0))]

\* ------------------------------------------------------------------------
\* CompilationState::compute
\* ------------------------------------------------------------------------

\* mutant of PreserveInput: the copy goes to the popped row reprojected into
\* the subarray two above, which is not the partner
PreserveInput_FarCopy(st, signal) ==
    IF Panicked(st) THEN st
    ELSE
        LET st1 == leftover_use_count_entry(st, signal.node)
        IN  IF st1.leftover_use_count[signal.node] > 1 THEN
                IF PoolEmpty(st1) THEN Fail(st1, "OOM")
                ELSE IF signal \notin DOMAIN st1.value_states
                THEN Fail(Popped(st1), "Input Signal not present")
                ELSE [Popped(st1) EXCEPT
                        !.program = Append(@, AAPRowCopy(st1.value_states[signal],
                                              Top(st1) + 2 * ROWS_PER_SUBARRAY))]
            ELSE st1

\* body of `for signal in signals` (input preservation) for one signal
PreserveInput(st, signal) ==
    IF Panicked(st) THEN st
    ELSE
        LET st1 == leftover_use_count_entry(st, signal.node)
        IN  IF st1.leftover_use_count[signal.node] > 1 THEN
                IF PoolEmpty(st1) THEN Fail(st1, "OOM")
                ELSE IF signal \notin DOMAIN st1.value_states
                THEN Fail(Popped(st1), "Input Signal not present")
                ELSE [Popped(st1) EXCEPT
                        !.program = Append(@, AAPRowCopy(st1.value_states[signal], Top(st1)))]
            ELSE st1

\* mutant of NewCandidates: the compiled node is inserted again
NewCandidates_Again(st, id) ==
    { parent_id \in node_outputs(st.network, id) \cup {id} :
        \A i \in DOMAIN st.network.nodes[parent_id].ins :
            st.network.nodes[parent_id].ins[i] \in DOMAIN st.value_states }

\* `for parent_id in self.network.node_outputs(id)`: the new candidates
NewCandidates(st, id) ==
    { parent_id \in node_outputs(st.network, id) :
        \A i \in DOMAIN st.network.nodes[parent_id].ins :
            st.network.nodes[parent_id].ins[i] \in DOMAIN st.value_states }

compute(st, id) ==
    IF Panicked(st) THEN st
    ELSE IF id \notin st.candidates THEN Fail(st, "not a candidate")
    ELSE
        LET st1 == [st EXCEPT !.candidates = @ \ {id}]
            node == st.network.nodes[id]
            signals == node.ins
        IN  IF node.kind # "Maj" THEN Fail(st1, "can only compute majs")
            ELSE IF \E i \in 1..3 : signals[i] \notin DOMAIN st1.value_states
            THEN Fail(st1, "Input Signal not present")
            ELSE
                LET row_addresses == [i \in 1..3 |-> st1.value_states[signals[i]]]
                    st2 == PreserveInput(PreserveInput(PreserveInput(st1,
                              signals[1]), signals[2]), signals[3])
                    st3 == [st2 EXCEPT
                        !.program = Append(@, AAPTRA(row_addresses[1], row_addresses[2],
                                                     row_addresses[3])),
                        !.value_states = Insert(@, Signal(id, FALSE), row_addresses[1]),
                        !.dram_state =
                            Remove(Remove(Insert(@, row_addresses[1],
                                                 RowState(Signal(id, FALSE), NoConstant)),
                                          row_addresses[2]),
                                   row_addresses[3]),
                        !.free_rows_per_subarray =
                            @ \o <<row_addresses[2], row_addresses[3]>>]
                IN  IF Panicked(st2) THEN st2
                    ELSE [st3 EXCEPT !.candidates = @ \cup NewCandidates(st3, id)]

\* ------------------------------------------------------------------------
\* compile
\* ------------------------------------------------------------------------

\* the tuple (not_present, outputs, !output) min_by_key orders the candidates by
SelectionKey(st, id) ==
    LET node == st.network.nodes[id]
        outs == Cardinality(node_outputs(st.network, id))
        output == \E k \in DOMAIN st.network.outs : st.network.outs[k].node = id
        not_present ==
            Cardinality({ i \in DOMAIN node.ins : node.ins[i] \notin DOMAIN st.value_states })
    IN  <<not_present, outs, IF output THEN 0 ELSE 1>>

\* Ord on the key tuples
KeyLess(k1, k2) ==
    \/ k1[1] < k2[1]
    \/ k1[1] = k2[1] /\ k1[2] < k2[2]
    \/ k1[1] = k2[1] /\ k1[2] = k2[2] /\ k1[3] < k2[3]

\* the candidates min_by_key can return
MinCandidates(st) ==
    { id \in st.candidates :
        \A other \in st.candidates :
            ~KeyLess(SelectionKey(st, other), SelectionKey(st, id)) }

\* body of `for (output, signal) in network.outputs().enumerate()` for the
\* output at position k (output = k - 1)
OutputStep(st, id, k) ==
    LET signal == st.network.outs[k]
    IN  IF Panicked(st) \/ signal.node # id THEN st
        ELSE IF signal.inv THEN
            IF PoolEmpty(st) THEN Fail(st, "No empty rows anymore")
            ELSE
                LET backup_row == Top(st)
                    st1 == Popped(st)
                IN  IF invert(signal) \notin DOMAIN st1.value_states
                    THEN Fail(st1, "Non-inverted version of signal isnt present too")
                    ELSE
                        LET orig_row == st1.value_states[invert(signal)]
                            st2 == [st1 EXCEPT
                                !.program = @ \o <<AAPRowCopy(orig_row, backup_row),
                                                   N(backup_row)>>,
                                !.value_states = Insert(@, signal, orig_row),
                                !.dram_state =
                                    Insert(Insert(@, orig_row,
                                                  RowState(invert(signal), NoConstant)),
                                           backup_row, RowState(signal, NoConstant))]
                        IN  compute(st2, id)
        ELSE compute(st, id)

RECURSIVE OutputLoop(_, _, _)
\* `for (output, signal) in network.outputs().enumerate()`, from position k on
OutputLoop(st, id, k) ==
    IF k > Len(st.network.outs) THEN st
    ELSE OutputLoop(OutputStep(st, id, k), id, k + 1)

\* body of `for signal in network.node(id).inputs()` after an output node
FreeInput(st, signal) ==
    IF signal \in DOMAIN st.value_states THEN
        LET row_addr == st.value_states[signal]
        IN  [st EXCEPT
                !.value_states = Remove(@, signal),
                !.dram_state = Remove(@, row_addr),
                !.free_rows_per_subarray = Append(@, row_addr)]
    ELSE st

RECURSIVE FreeInputs(_, _)
FreeInputs(st, signals) ==
    IF signals = <<>> THEN st
    ELSE FreeInputs(FreeInput(st, Head(signals)), Tail(signals))

\* the branch `if state.outputs.contains(&id)` of the loop body
OutputBranch(st, id) ==
    LET st1 == OutputLoop(st, id, 1)
        st2 == leftover_use_count_entry([st1 EXCEPT !.outputs = @ \ {id}], id)
    IN  IF Panicked(st1) THEN st1
        ELSE IF st2.leftover_use_count[id] = 1
        THEN FreeInputs(st2, st.network.nodes[id].ins)
        ELSE st2

\* one iteration of `while !state.candidates.is_empty()` that selects id
LoopBody(st, id) ==
    IF id \in st.outputs THEN OutputBranch(st, id) ELSE compute(st, id)

\* ------------------------------------------------------------------------
\* The state machine
\* ------------------------------------------------------------------------

CurrentState ==
    [ network |-> network,
      dram_state |-> dram_state,
      value_states |-> value_states,
      free_rows_per_subarray |-> free_rows_per_subarray,
      program |-> program,
      candidates |-> candidates,
      outputs |-> outputs,
      leftover_use_count |-> leftover_use_count,
      panic |-> panic ]

\* the fields after a handler ran to st
Becomes(st, next_pc) ==
    /\ dram_state' = st.dram_state
    /\ value_states' = st.value_states
    /\ free_rows_per_subarray' = st.free_rows_per_subarray
    /\ program' = st.program
    /\ candidates' = st.candidates
    /\ outputs' = st.outputs
    /\ leftover_use_count' = st.leftover_use_count
    /\ panic' = st.panic
    /\ pc' = IF Panicked(st) THEN "panicked" ELSE next_pc
    /\ UNCHANGED <<network, rows_per_subarray, call, ret>>

\* mutant of InstructionCost: the constants of AAPTRA and AAPRowCopy are
\* attached to the wrong arm of the match
InstructionCost_Swapped(instr) ==
    IF instr.op = "N" THEN CompilingCost(35, 100)
    ELSE IF instr.op = "AAPTRA" THEN CompilingCost(100, 50)
    ELSE CompilingCost(49, 150)

\* the match of compile() on an instruction
InstructionCost(instr) ==
    IF instr.op = "N" THEN CompilingCost(35, 100)
    ELSE IF instr.op = "AAPTRA" THEN CompilingCost(49, 150)
    ELSE CompilingCost(100, 50)

\* state.program.iter().map(..).sum()
ProgramCost(prog) == CostSum([i \in DOMAIN prog |-> InstructionCost(prog[i])])

CompileCall == [fn |-> "compile"]

Init ==
    /\ network \in Networks
    /\ rows_per_subarray \in 1..PoolRows
    /\ pc = "start"
    /\ panic = NoPanic
    /\ dram_state = EmptyMap
    /\ value_states = EmptyMap
    /\ free_rows_per_subarray = <<>>
    /\ program = <<>>
    /\ candidates = {}
    /\ outputs = {}
    /\ leftover_use_count = EmptyMap
    /\ runtime_estimate = 0
    /\ energy_consumption_estimate = 0
    /\ call = CompileCall
    /\ ret = <<>>

\* let mut state = CompilationState::new(architecture, network)
New ==
    /\ pc = "start"
    /\ Becomes(new(network, rows_per_subarray), "loop")
    /\ UNCHANGED <<runtime_estimate, energy_consumption_estimate>>

\* one iteration of the main loop
Iterate ==
    /\ pc = "loop"
    /\ candidates # {}
    /\ \E id \in MinCandidates(CurrentState) :
          Becomes(LoopBody(CurrentState, id), "loop")
    /\ UNCHANGED <<runtime_estimate, energy_consumption_estimate>>

\* the loop ends and compile returns Ok(program) with the summed estimates
Return ==
    /\ pc = "loop"
    /\ candidates = {}
    /\ Becomes(CurrentState, "returned")
    /\ runtime_estimate' = ProgramCost(program).runtime
    /\ energy_consumption_estimate' = ProgramCost(program).energy_consumption

Next == New \/ Iterate \/ Return

Spec == Init /\ [][Next]_vars

\* ------------------------------------------------------------------------
\* Calls of the pure functions of architecture.rs and extraction.rs: the
\* arguments are drawn in the initial state and one action applies the
\* function; no compilation runs in these behaviours.
\* ------------------------------------------------------------------------

compile_vars == <<network, rows_per_subarray, pc, panic, dram_state, value_states,
                  free_rows_per_subarray, program, candidates, outputs,
                  leftover_use_count, runtime_estimate, energy_consumption_estimate>>

NoCompilation ==
    /\ network = [nodes |-> EmptyMap, outs |-> <<>>]
    /\ rows_per_subarray = 0
    /\ pc = "idle"
    /\ panic = NoPanic
    /\ dram_state = EmptyMap
    /\ value_states = EmptyMap
    /\ free_rows_per_subarray = <<>>
    /\ program = <<>>
    /\ candidates = {}
    /\ outputs = {}
    /\ leftover_use_count = EmptyMap
    /\ runtime_estimate = 0
    /\ energy_consumption_estimate = 0

Returns(value) == ret = <<>> /\ ret' = <<value>> /\ UNCHANGED <<call, compile_vars>>

\* the subarray ids
SubarrayIds == 0..(NR_SUBARRAYS - 1)

\* the addresses reprojected: every row of subarray 0 and rows at the lower
\* end, the middle and the upper end of three other subarrays
Addresses ==
    0..(ROWS_PER_SUBARRAY - 1)
    \cup { subarrayid_to_subarray_address(sub) + local :
             sub \in {1, 2, NR_SUBARRAYS - 1},
             local \in {0, 1, 255, 256, ROWS_PER_SUBARRAY - 1} }

ArchCalls ==
    { [fn |-> "local_rowaddress_to_subarray_id", addr |-> a, subarray_id |-> sub] :
        a \in Addresses, sub \in SubarrayIds }
    \cup { [fn |-> "get_partner_subarray", addr |-> NoRow, subarray_id |-> sub] :
             sub \in SubarrayIds }

InitArch == NoCompilation /\ call \in ArchCalls /\ ret = <<>>

Reproject ==
    /\ call.fn = "local_rowaddress_to_subarray_id"
    /\ Returns(local_rowaddress_to_subarray_id(call.addr, call.subarray_id))

Partner ==
    /\ call.fn = "get_partner_subarray"
    /\ Returns(get_partner_subarray(call.subarray_id))

NextArch == Reproject \/ Partner

SpecArch == InitArch /\ [][NextArch]_vars

\* largest runtime and energy of the costs compared
MaxCostValue == 3
\* largest e-class id
MaxEClass == 2

EClassIds == 0..MaxEClass
ComparedCosts == { CompilingCost(r, e) : r, e \in 0..MaxCostValue }
ChildCosts == { CompilingCost(0, 0), CompilingCost(35, 100), CompilingCost(49, 150) }
ENodes ==
    { ENode("False", <<>>), ENode("Input", <<>>) }
    \cup { ENode("Not", <<a>>) : a \in EClassIds }
    \cup { ENode("Maj", <<a, b, c>>) : a, b, c \in EClassIds }

CostCalls ==
    { [fn |-> "partial_cmp", lhs |-> l, rhs |-> r] : l, r \in ComparedCosts }
    \cup { [fn |-> "cost", eclass_id |-> id, enode |-> n, costs |-> cs] :
             id \in EClassIds, n \in ENodes, cs \in [EClassIds -> ChildCosts] }

InitCost == NoCompilation /\ call \in CostCalls /\ ret = <<>>

PartialCmp ==
    /\ call.fn = "partial_cmp"
    /\ Returns(partial_cmp(call.lhs, call.rhs))

Cost ==
    /\ call.fn = "cost"
    /\ Returns(cost(call.eclass_id, call.enode, call.costs))

NextCost == PartialCmp \/ Cost

SpecCost == InitCost /\ [][NextCost]_vars

\* ------------------------------------------------------------------------
\* Executing a program on the DRAM (the instruction semantics the program
\* is emitted for: AAPRowCopy dst <- src, AAPTRA a, b, c <- MAJ(a, b, c),
\* N row <- NOT row).  A row holds 0, 1 or Unknown (never written).
\* ------------------------------------------------------------------------

Unknown == 2

NotBit(x) == IF x = Unknown THEN Unknown ELSE 1 - x

Maj3(x, y, z) ==
    IF x = y /\ x # Unknown THEN x
    ELSE IF x = z /\ x # Unknown THEN x
    ELSE IF y = z /\ y # Unknown THEN y
    ELSE Unknown

InputIds(ntk) == { id \in NodeIds(ntk) : ntk.nodes[id].kind = "Input" }
Valuations(ntk) == [InputIds(ntk) -> {0, 1}]

RECURSIVE NodeValue(_, _, _)
\* the value of node id of the network under the input valuation v
NodeValue(ntk, v, id) ==
    LET node == ntk.nodes[id]
        in(i) == IF node.ins[i].inv
                 THEN 1 - NodeValue(ntk, v, node.ins[i].node)
                 ELSE NodeValue(ntk, v, node.ins[i].node)
    IN  IF node.kind = "False" THEN 0
        ELSE IF node.kind = "Input" THEN v[id]
        ELSE Maj3(in(1), in(2), in(3))

SignalValue(ntk, v, s) ==
    IF s.inv THEN 1 - NodeValue(ntk, v, s.node) ELSE NodeValue(ntk, v, s.node)

\* the DRAM before the program runs: the rows get_init_states has placed
\* hold the constants and both polarities of every primary input
InitialDram(ntk, n, v) ==
    LET placed == new(ntk, n).dram_state
    IN  [ r \in 0..(n - 1) |->
            IF r \notin DOMAIN placed THEN Unknown
            ELSE IF placed[r].constant = ConstZero THEN 0
            ELSE IF placed[r].constant = ConstOnes THEN 1
            ELSE SignalValue(ntk, v, placed[r].live_value) ]

Execute(instr, mem) ==
    IF instr.op = "AAPRowCopy" THEN [mem EXCEPT ![instr.b] = mem[instr.a]]
    ELSE IF instr.op = "AAPTRA" THEN
        LET m == Maj3(mem[instr.a], mem[instr.b], mem[instr.c])
        IN  [r \in DOMAIN mem |-> IF r \in {instr.a, instr.b, instr.c} THEN m ELSE mem[r]]
    ELSE [mem EXCEPT ![instr.a] = NotBit(mem[instr.a])]

RECURSIVE Run(_, _)
Run(prog, mem) ==
    IF prog = <<>> THEN mem ELSE Run(Tail(prog), Execute(Head(prog), mem))

RECURSIVE AlwaysReturns(_)
\* compile() returns a program from state st whichever minimal candidate
\* each iteration selects
AlwaysReturns(st) ==
    IF Panicked(st) THEN FALSE
    ELSE IF st.candidates = {} THEN TRUE
    ELSE \A id \in MinCandidates(st) : AlwaysReturns(LoopBody(st, id))

\* compile() accepts the network with a pool of n rows
Accepts(ntk, n) == AlwaysReturns(new(ntk, n))

Running == pc \in {"loop", "returned"}
Range(seq) == { seq[i] : i \in DOMAIN seq }

\* ------------------------------------------------------------------------
\* Properties
\* ------------------------------------------------------------------------

\* C1: for a network compile() accepts, whenever an AAPTRA is appended for
\* MAJ node id, executing the program emitted before it on the initial DRAM
\* leaves in its three operand rows the values of the three input signals of
\* id, for every valuation of the primary inputs.
C1_TraOperandsHoldInputs ==
    [][ Accepts(network, rows_per_subarray) =>
        \A i \in (Len(program) + 1)..Len(program') :
            program'[i].op = "AAPTRA" =>
                \A id \in candidates \ candidates' :
                \A v \in Valuations(network) :
                    LET mem == Run(SubSeq(program', 1, i - 1),
                                   InitialDram(network, rows_per_subarray, v))
                        ins == network.nodes[id].ins
                    IN  /\ mem[program'[i].a] = SignalValue(network, v, ins[1])
                        /\ mem[program'[i].b] = SignalValue(network, v, ins[2])
                        /\ mem[program'[i].c] = SignalValue(network, v, ins[3]) ]_vars

\* C2: when compile() has returned, after executing the program row k holds
\* the value of the k-th primary output, for every valuation of the inputs.
C2_OutputPlacement ==
    pc = "returned" =>
        \A k \in DOMAIN network.outs :
        \A v \in Valuations(network) :
            Run(program, InitialDram(network, rows_per_subarray, v))[k - 1]
                = SignalValue(network, v, network.outs[k])

\* C3: every AAPTRA in the emitted program has its three rows in one subarray.
C3_TraLocality ==
    \A i \in DOMAIN program :
        program[i].op = "AAPTRA" =>
            /\ get_subarray_id(program[i].a) = get_subarray_id(program[i].b)
            /\ get_subarray_id(program[i].b) = get_subarray_id(program[i].c)

\* an AAPTRA over three distinct rows has been emitted
C3_Witness ==
    \E i \in DOMAIN program :
        /\ program[i].op = "AAPTRA"
        /\ Cardinality({program[i].a, program[i].b, program[i].c}) = 3

\* C4: every AAPRowCopy in the emitted program copies within a subarray or
\* between partner subarrays.
C4_CopyPartnership ==
    \A i \in DOMAIN program :
        program[i].op = "AAPRowCopy" =>
            \/ get_subarray_id(program[i].a) = get_subarray_id(program[i].b)
            \/ get_subarray_id(program[i].b)
                  = get_partner_subarray(get_subarray_id(program[i].a))

\* both kinds of copy have been emitted: an input-preservation copy before an
\* AAPTRA and the backup copy of an inverted output (followed by N)
C4_Witness ==
    /\ \E i \in DOMAIN program :
          /\ program[i].op = "AAPRowCopy"
          /\ i < Len(program) /\ program[i + 1].op = "N"
    /\ \E i \in DOMAIN program :
          /\ program[i].op = "AAPRowCopy"
          /\ i < Len(program) /\ program[i + 1].op # "N"

\* C5: after initialization and after every iteration the rows of dram_state,
\* the rows of the free pool and the reserved output rows add up to the rows
\* of the subarray; the reserved rows are counted either as the rows new()
\* holds back from the pool (none) or as one row per output position.
C5_RowConservation ==
    Running =>
        LET held == Cardinality(DOMAIN dram_state) + Len(free_rows_per_subarray)
        IN  \/ held = rows_per_subarray
            \/ held + Len(network.outs) = rows_per_subarray

\* C6: a row is a key of dram_state iff it is not in the free pool.
C6_DramIffNotFree ==
    Running =>
        \A r \in 0..(rows_per_subarray - 1) :
            (r \in DOMAIN dram_state) <=> (r \notin Range(free_rows_per_subarray))

\* C7: every signal of value_states points to a row of dram_state whose
\* live_value is that signal.
C7_ValueStatesLive ==
    Running =>
        \A s \in DOMAIN value_states :
            /\ value_states[s] \in DOMAIN dram_state
            /\ dram_state[value_states[s]].live_value = s

\* C8: every candidate has its three inputs in value_states, and compute never
\* fails on a missing input.
C8_CandidatesReady ==
    /\ pc = "loop" =>
          \A id \in candidates : SelectionKey(CurrentState, id)[1] = 0
    /\ panic # "Input Signal not present"

\* C9: compile() returns a program only if every primary output is bound to
\* its reserved output row.
C9_ReturnsOnlyMaterialized ==
    pc = "returned" =>
        \A k \in DOMAIN network.outs :
            /\ network.outs[k] \in DOMAIN value_states
            /\ value_states[network.outs[k]] = k - 1

\* what the caller of compile() gets: Ok(program), nothing yet, or no value
\* at all because the call panicked
Outcome ==
    IF pc = "returned" THEN "Ok"
    ELSE IF pc = "panicked" THEN "panic"
    ELSE "running"

PoolExhausted == panic \in {"No more free rows", "OOM", "No empty rows anymore"}

\* C10: a pop from the empty pool ends the call with the typed failure
\* OutOfRows returned to the caller.
C10_OutOfRowsIsTyped ==
    PoolExhausted => Outcome = "Err(OutOfRows)"

\* the number of instructions of prog with opcode op
CountOp(prog, op) == Cardinality({ i \in DOMAIN prog : prog[i].op = op })

\* C12: the estimates of the returned Program are 100/50 per AAPRowCopy plus
\* 49/150 per AAPTRA plus 35/100 per N of its instruction list, (0, 0) for
\* the empty program; the sum compile() forms over any emitted instruction
\* list has that value.
C12_CostAdditivity ==
    LET r == 100 * CountOp(program, "AAPRowCopy") + 49 * CountOp(program, "AAPTRA")
             + 35 * CountOp(program, "N")
        e == 50 * CountOp(program, "AAPRowCopy") + 150 * CountOp(program, "AAPTRA")
             + 100 * CountOp(program, "N")
    IN  /\ ProgramCost(program) = CompilingCost(r, e)
        /\ pc = "returned" =>
              /\ runtime_estimate = r
              /\ energy_consumption_estimate = e
              /\ program = <<>> => runtime_estimate = 0 /\ energy_consumption_estimate = 0

\* compile() has returned a program with copies and TRAs
C12_Witness ==
    /\ pc = "returned"
    /\ CountOp(program, "AAPRowCopy") > 0
    /\ CountOp(program, "AAPTRA") > 1
    /\ runtime_estimate > 0

\* C13: reprojecting an address into subarray sub yields an address of
\* subarray sub with the local row of the argument; for a local row of
\* subarray 0 the result is (sub << 9) | local.
C13_AddressRoundTrip ==
    (call.fn = "local_rowaddress_to_subarray_id" /\ ret # <<>>) =>
        /\ get_subarray_id(ret[1]) = call.subarray_id
        /\ ret[1] % ROWS_PER_SUBARRAY = call.addr % ROWS_PER_SUBARRAY
        /\ BitAnd(ret[1], ROW_ID_BITMASK) = call.addr % ROWS_PER_SUBARRAY
        /\ call.addr < ROWS_PER_SUBARRAY =>
              ret[1] = call.subarray_id * ROWS_PER_SUBARRAY + call.addr

\* an address of another subarray with a nonzero local row was reprojected
C13_Witness ==
    /\ call.fn = "local_rowaddress_to_subarray_id" /\ ret # <<>>
    /\ call.addr >= ROWS_PER_SUBARRAY
    /\ call.addr % ROWS_PER_SUBARRAY > 0
    /\ get_subarray_id(call.addr) # call.subarray_id

RECURSIVE BitXor(_, _)
BitXor(x, y) ==
    IF x = 0 THEN y
    ELSE IF y = 0 THEN x
    ELSE (IF x % 2 = y % 2 THEN 0 ELSE 1) + 2 * BitXor(x \div 2, y \div 2)

\* C14: the partner of a subarray id is id XOR 1: a valid id, different from
\* id, whose partner is id again.
C14_PartnerInvolution ==
    (call.fn = "get_partner_subarray" /\ ret # <<>>) =>
        /\ ret[1] = BitXor(call.subarray_id, 1)
        /\ get_partner_subarray(ret[1]) = call.subarray_id
        /\ ret[1] # call.subarray_id
        /\ ret[1] \in SubarrayIds

\* the partner of the highest subarray id was taken
C14_Witness ==
    /\ call.fn = "get_partner_subarray" /\ ret # <<>>
    /\ call.subarray_id = NR_SUBARRAYS - 1

\* C15: partial_cmp is the lexicographic order on (runtime, energy): it always
\* yields an ordering, Less exactly for the lexicographically smaller cost and
\* Equal exactly when eq holds.
C15_CostOrdering ==
    (call.fn = "partial_cmp" /\ ret # <<>>) =>
        LET l == call.lhs
            r == call.rhs
        IN  /\ ret[1] \in {"Less", "Equal", "Greater"}
            /\ ret[1] = "Less" <=>
                  \/ l.runtime < r.runtime
                  \/ l.runtime = r.runtime /\ l.energy_consumption < r.energy_consumption
            /\ ret[1] = "Equal" <=> CostEq(l, r)

\* two costs whose runtime and energy order disagree were compared
C15_Witness ==
    /\ call.fn = "partial_cmp" /\ ret = <<"Less">>
    /\ call.lhs.runtime < call.rhs.runtime
    /\ call.lhs.energy_consumption > call.rhs.energy_consumption

RECURSIVE SumRuntime(_, _, _)
SumRuntime(children, costs, i) ==
    IF i > Len(children) THEN 0
    ELSE costs[children[i]].runtime + SumRuntime(children, costs, i + 1)

RECURSIVE SumEnergy(_, _, _)
SumEnergy(children, costs, i) ==
    IF i > Len(children) THEN 0
    ELSE costs[children[i]].energy_consumption + SumEnergy(children, costs, i + 1)

\* C16: for an e-node without a child in its own e-class the cost is the
\* opcost of the node plus the componentwise sum of the costs of its
\* children; (0, 0) is the identity of the addition.
C16_NodeCost ==
    (/\ call.fn = "cost" /\ ret # <<>>
     /\ \A i \in DOMAIN call.enode.children : call.enode.children[i] # call.eclass_id) =>
        LET n == call.enode
            opr == IF n.op = "Maj" THEN 49 ELSE IF n.op = "Not" THEN 35 ELSE 0
            ope == IF n.op = "Maj" THEN 150 ELSE IF n.op = "Not" THEN 100 ELSE 0
        IN  /\ ret[1].cost =
                  << CompilingCost(opr + SumRuntime(n.children, call.costs, 1),
                                   ope + SumEnergy(n.children, call.costs, 1)) >>
            /\ \A id \in EClassIds :
                  /\ CostAdd(call.costs[id], CompilingCost(0, 0)) = call.costs[id]
                  /\ CostAdd(CompilingCost(0, 0), call.costs[id]) = call.costs[id]

\* the cost of a Not and of a Maj over children with nonzero costs was taken
C16_Witness ==
    /\ call.fn = "cost" /\ ret # <<>>
    /\ call.enode.op = "Not"
    /\ call.enode.children[1] # call.eclass_id
    /\ call.costs[call.enode.children[1]].runtime > 0

\* C17: cost returns None exactly for an e-node with a child in its own
\* e-class, and then without asking the callback for any child cost.
C17_SelfCycleRejection ==
    (call.fn = "cost" /\ ret # <<>>) =>
        /\ ret[1].cost = <<>> <=>
              \E i \in DOMAIN call.enode.children :
                  call.enode.children[i] = call.eclass_id
        /\ ret[1].cost = <<>> => ret[1].calls = <<>>
        /\ ret[1].cost # <<>> => ret[1].calls = call.enode.children

\* a Maj with its own e-class among its children was rejected
C17_Witness ==
    /\ call.fn = "cost" /\ ret # <<>>
    /\ call.enode.op = "Maj"
    /\ call.enode.children[1] = call.eclass_id
    /\ ret[1].cost = <<>>

\* C18: the rows 0..(|outputs|-1) are not in the free pool from the
\* initialization on, and a row of them that holds a value holds the output
\* signal placed there.
C18_OutputRowsDisjointPool ==
    Running =>
        \A k \in DOMAIN network.outs :
            /\ (k - 1) \notin Range(free_rows_per_subarray)
            /\ (k - 1) \in DOMAIN dram_state =>
                  dram_state[k - 1].live_value = network.outs[k]

\* the node compiled by a step of the loop: the candidate it has removed
Compiled == candidates \ candidates'

\* C19: when a consumer of a node is compiled the leftover_use_count of the
\* node goes down by one, and a signal consumed by a node that is still a
\* candidate after the step stays in value_states with its row outside the
\* free pool.
C19_Retirement ==
    [][ (pc = "loop" /\ pc' # "panicked") =>
            /\ \A id \in Compiled :
                 \A i \in DOMAIN network.nodes[id].ins :
                    LET n == network.nodes[id].ins[i].node
                    IN  n \in DOMAIN leftover_use_count =>
                           /\ n \in DOMAIN leftover_use_count'
                           /\ leftover_use_count'[n] < leftover_use_count[n]
            /\ \A c \in candidates' :
                 \A i \in DOMAIN network.nodes[c].ins :
                    LET s == network.nodes[c].ins[i]
                    IN  s \in DOMAIN value_states =>
                           /\ s \in DOMAIN value_states'
                           /\ value_states'[s] \notin Range(free_rows_per_subarray')
      ]_vars

\* C20: an entry of leftover_use_count is created with the number of consumers
\* of the node plus one if the node is an output of the network.
C20_FirstInspectionCount ==
    [][ \A id \in DOMAIN leftover_use_count' \ DOMAIN leftover_use_count :
            leftover_use_count'[id] =
                Cardinality(node_outputs(network, id))
                + (IF id \in OutputIds(network) THEN 1 ELSE 0)
      ]_vars

\* the instructions a step appends to the program
Appended == (Len(program) + 1)..Len(program')
AppendedCopies == { j \in Appended : program'[j].op = "AAPRowCopy" }

\* the input positions of node id whose producer has leftover_use_count > 1
Preserved(id) ==
    { i \in DOMAIN network.nodes[id].ins :
        LET n == network.nodes[id].ins[i].node
        IN  n \in DOMAIN leftover_use_count' /\ leftover_use_count'[n] > 1 }

\* a step of the loop that compiles a node and does not panic
Compiles == pc = "loop" /\ pc' # "panicked" /\ Compiled # {}

\* the copies match the inputs with count > 1, read the row of the input,
\* write a row popped from the pool and precede the AAPTRA
CopiesEmitted ==
    \A id \in Compiled :
        /\ Cardinality(AppendedCopies) = Cardinality(Preserved(id))
        /\ \A i \in Preserved(id) :
              \E j \in AppendedCopies :
                  /\ program'[j].a = value_states[network.nodes[id].ins[i]]
                  /\ program'[j].b \in Range(free_rows_per_subarray)
        /\ \A j \in AppendedCopies :
              \E t \in Appended : t > j /\ program'[t].op = "AAPTRA"

\* the state after the step records the copied signal for the fresh row
CopiesRecorded ==
    \A id \in Compiled :
        \A i \in Preserved(id) :
            \E j \in AppendedCopies :
                /\ program'[j].a = value_states[network.nodes[id].ins[i]]
                /\ program'[j].b \in DOMAIN dram_state'
                /\ dram_state'[program'[j].b].live_value = network.nodes[id].ins[i]

\* C21: a compiled candidate gets one AAPRowCopy to a freshly popped row for
\* each input whose producer has leftover_use_count > 1, before its AAPTRA and
\* none for the other inputs, and the state then records that the fresh row
\* holds the input.
C21_InputPreservation ==
    [][ Compiles => CopiesEmitted /\ CopiesRecorded ]_vars

AppendedTras == { j \in Appended : program'[j].op = "AAPTRA" }

\* C22: compiling candidate id with inputs in rows a, b, c appends exactly
\* one AAPTRA(a, b, c); afterwards row a is the home of Signal(id, false) in
\* value_states and dram_state and is not in the free pool, the rows b and c
\* other than a are out of dram_state and in the free pool, and id is no
\* candidate.
C22_MajEmission ==
    [][ Compiles =>
        \A id \in Compiled :
            LET ins == network.nodes[id].ins
                a == value_states[ins[1]]
                b == value_states[ins[2]]
                c == value_states[ins[3]]
                result == Signal(id, FALSE)
            IN  /\ Cardinality(AppendedTras) = 1
                /\ \A j \in AppendedTras : program'[j] = AAPTRA(a, b, c)
                /\ result \in DOMAIN value_states' /\ value_states'[result] = a
                /\ a \in DOMAIN dram_state' /\ dram_state'[a].live_value = result
                /\ \A r \in {b, c} \ {a} :
                      r \notin DOMAIN dram_state' /\ r \in Range(free_rows_per_subarray')
                /\ id \notin candidates'
                /\ a \notin Range(free_rows_per_subarray')
      ]_vars

\* the output positions whose signal is the inverted signal of a MAJ node
InvertedMajOutputs ==
    { k \in DOMAIN network.outs :
        network.outs[k].inv /\ network.outs[k].node \in MajIds(network) }

\* C23: with an inverted MAJ output the compilation fails only for want of
\* rows, and the returned program has, after an AAPTRA, the copy of the home
\* row of Signal(id, false) to a backup row followed by N(backup); the backup
\* is then the row of Signal(id, true) and the home row that of Signal(id, false).
C23_InvertedOutput ==
    InvertedMajOutputs # {} =>
        /\ pc = "panicked" => PoolExhausted
        /\ pc = "returned" =>
              \A k \in InvertedMajOutputs :
                  LET pos == Signal(network.outs[k].node, FALSE)
                      neg == network.outs[k]
                  IN  /\ pos \in DOMAIN value_states /\ neg \in DOMAIN value_states
                      /\ value_states[pos] # value_states[neg]
                      /\ \E t, j \in DOMAIN program :
                            /\ t < j /\ j + 1 \in DOMAIN program
                            /\ program[t].op = "AAPTRA"
                            /\ program[j] = AAPRowCopy(value_states[pos], value_states[neg])
                            /\ program[j + 1] = N(value_states[neg])

\* the home row CompilationState::new gives to a signal of a primary input
HomeRow(s) == new(network, rows_per_subarray).value_states[s]

\* C24: the returned program places an output that is a primary input x in
\* its output row k: by a copy from the home row of x, or for an inverted
\* output by a copy of x to a fresh row, N on that row and a copy into row k.
C24_LeafOutputs ==
    pc = "returned" =>
        \A k \in DOMAIN network.outs :
            LET s == network.outs[k]
            IN  network.nodes[s.node].kind = "Input" =>
                   IF ~s.inv
                   THEN \E j \in DOMAIN program :
                            program[j] = AAPRowCopy(HomeRow(s), k - 1)
                   ELSE \E j \in DOMAIN program, fresh \in 0..(rows_per_subarray - 1) :
                            /\ j + 2 \in DOMAIN program
                            /\ program[j] = AAPRowCopy(HomeRow(invert(s)), fresh)
                            /\ program[j + 1] = N(fresh)
                            /\ program[j + 2] = AAPRowCopy(fresh, k - 1)

\* y = MAJ(a, b, c) with outputs [y, MAJ(y, a, b)]
SharedSubexpression ==
    MakeNetwork(<<S1, S2, S3>>, <<S4, S1, S2>>, <<S4, S5, S1>>, <<S4, S5>>)

\* C25: for the shared-subexpression network the compilation fails only for
\* want of rows, and the returned program has two AAPTRA and one AAPRowCopy,
\* the copy reading the row of y before the second AAPTRA and the second
\* AAPTRA reading the row the copy wrote.
C25_SharedSubexpression ==
    network = SharedSubexpression =>
        /\ pc = "panicked" => PoolExhausted
        /\ pc = "returned" =>
              /\ CountOp(program, "AAPTRA") = 2
              /\ CountOp(program, "AAPRowCopy") = 1
              /\ \E t1, j, t2 \in DOMAIN program :
                    /\ t1 < j /\ j < t2
                    /\ program[t1].op = "AAPTRA"
                    /\ program[j].op = "AAPRowCopy" /\ program[j].a = program[t1].a
                    /\ program[t2].op = "AAPTRA"
                    /\ program[j].b \in {program[t2].a, program[t2].b, program[t2].c}

\* the key of a candidate in the current state, written out
Key(id) ==
    LET ins == network.nodes[id].ins
    IN  << Cardinality({ i \in DOMAIN ins : ins[i] \notin DOMAIN value_states }),
           Cardinality({ p \in MajIds(network) :
                           \E i \in DOMAIN network.nodes[p].ins :
                               network.nodes[p].ins[i].node = id }),
           IF id \in OutputIds(network) THEN 0 ELSE 1 >>

\* C26: the node an iteration compiles is a candidate of lexicographically
\* minimal key, and of the smallest id among the candidates of that key.
C26_CandidateSelection ==
    [][ pc = "loop" =>
        \A id \in Compiled :
            /\ id \in candidates
            /\ \A other \in candidates :
                  /\ ~KeyLess(Key(other), Key(id))
                  /\ Key(other) = Key(id) => id <= other
      ]_vars

\* C27: unless the pool runs out of rows the main loop ends, and it ends with
\* an AAPTRA emitted for every MAJ node of the network.
C27_EveryMajCompiled ==
    /\ pc = "panicked" => PoolExhausted
    /\ pc = "returned" =>
          CountOp(program, "AAPTRA") >= Cardinality(MajIds(network))

C29_ComputeOnCandidates ==
    panic \notin {"not a candidate", "can only compute majs"}

\* C30: the free-row stack holds no row twice and does not hold the row
\* value_states records for the result of a compiled MAJ node.
C30_NoDoubleAllocation ==
    Running =>
        /\ \A i, j \in DOMAIN free_rows_per_subarray :
              free_rows_per_subarray[i] = free_rows_per_subarray[j] => i = j
        /\ \A id \in MajIds(network) :
              Signal(id, FALSE) \in DOMAIN value_states =>
                  value_states[Signal(id, FALSE)] \notin Range(free_rows_per_subarray)

====
